---------------------------- MODULE Spec2Model ----------------------------
(***************************************************************************)
(* The alarm scheduling pipeline of src/New_Alarm_Cond.c.                  *)
(*                                                                         *)
(* The file holds the program in two shapes, both modelled here and told   *)
(* apart by the variable `variant`:                                        *)
(*   "cond" - lines 1-377 (and, with other field names, 836-1111): the     *)
(*            alarm list with alarm_insert / change_alarm / cancel_alarm   *)
(*            and the alarm thread that pops the head and waits on         *)
(*            alarm_cond up to its deadline.  A behaviour in which         *)
(*            change_alarm and cancel_alarm are never called (ncalls = 0)  *)
(*            is a behaviour of lines 836-1111.                            *)
(*   "pipe" - lines 379-833: requests carry a kind, alarm_insert checks    *)
(*            for a duplicate id, the alarm thread dispatches each popped  *)
(*            record to a handler and stores it in the circular buffer.    *)
(*                                                                         *)
(* Records live in a heap of MaxAlloc cells, linked through their `link`   *)
(* field as in the C code; 0 is the NULL pointer.  Time is the value of    *)
(* time(NULL) in whole seconds.  A thread that can run takes its step      *)
(* within the current second: the clock advances only when every thread    *)
(* is blocked or idle.  One step is the code between two synchronisation   *)
(* calls of a thread.  Requests carry an id >= 1 and an interval >= 0.     *)
(*                                                                         *)
(* Spec is the program of lines 379-833, SpecCond that of lines 1-377.     *)
(* SpecDisplay runs periodic_display_thread (lines 317-362), which neither *)
(* program starts, over a display list given at the start.                 *)
(***************************************************************************)
EXTENDS Integers, Sequences, FiniteSets, TLC

MaxAlloc == 3
MaxTime == 3
MaxId == 2
MaxSeconds == 2
MaxCalls == 1
CIRCULAR_BUFFER_SIZE == 4

NULL == 0
Refs == 1..MaxAlloc
Ids == 1..MaxId
Seconds == 0..MaxSeconds

VARIABLES
  variant,        \* which shape of the program runs
  now,            \* time(NULL)
  proc,           \* "running", "segv" (signal 11) or "abort" (err_abort)
  heap,           \* the alarm_t records, by address
  nalloc,         \* records handed out by malloc so far
  alarm_list,     \* head pointer
  current_alarm,  \* 0 or the deadline the alarm thread waits for
  alarm_mutex,    \* the thread that locked it: "none", "main" or "alarm"
  mutex_kind,     \* what the platform's default mutex does for a thread
                  \* that does not own it: "fast" or "checking"
  waitst,         \* the alarm thread on alarm_cond: none/waiting/signalled/timedout
  at_pc,          \* position of alarm_thread
  at_alarm,       \* its local `alarm`
  cl_pc,          \* position of the client (main) thread
  cl_req,         \* its current request
  ncalls,         \* change_alarm / cancel_alarm calls made so far
  circ_buff,      \* the circular buffer
  ct_pc,          \* position of consumer_thread
  expiredLog,     \* the "expired" lines printed, in order
  pushLog,        \* the records stored in the circular buffer, in order
  popLog,         \* the records the consumer took out, in order
  report,         \* what the last cancel printed
  preempted,      \* the records whose timed wait was abandoned, as they
                  \* were when the wait was left
  Alarm_Display_List,        \* head pointer of the display list
  alarm_display_list_mutex,  \* "none" or "display"
  pd_pc,          \* position of periodic_display_thread, "none" while no
                  \* such thread has been created
  pd_temp,        \* its local `temp`
  pd_now,         \* its local `now`
  pd_next,        \* its local `next_alarm_time`
  pd_wake,        \* the time its sleep() ends
  announced       \* the "ALARM MESSAGE" lines printed, in order

vars == <<variant, mutex_kind, now, proc, heap, nalloc, alarm_list, current_alarm,
          alarm_mutex, waitst, at_pc, at_alarm, cl_pc, cl_req, ncalls,
          circ_buff, ct_pc, expiredLog, pushLog, popLog, report,
          preempted, Alarm_Display_List, alarm_display_list_mutex, pd_pc,
          pd_temp, pd_now, pd_next, pd_wake, announced>>

-----------------------------------------------------------------------------
(* The heap and the list *)

\* `asked` is not a field of alarm_t: it keeps the id the request line
\* carried, to compare with the id the record ends up with
Blank == [id |-> 0, seconds |-> 0, time |-> 0, type |-> "NONE",
          message |-> 0, link |-> NULL, st |-> "unalloc", asked |-> 0]

NoReq == [kind |-> "none", id |-> 0, seconds |-> 0, message |-> 0, ref |-> NULL]

RECURSIVE Walk(_, _, _)
Walk(h, r, fuel) ==
  IF r = NULL \/ fuel = 0 THEN <<>>
  ELSE <<r>> \o Walk(h, h[r].link, fuel - 1)

\* the records reachable from `head`, in list order
ListOf(h, head) == Walk(h, head, MaxAlloc + 1)

ListRefs == ListOf(heap, alarm_list)

\* what an entry is, apart from where it is linked
Entry(h, r) == [ref |-> r, id |-> h[r].id, seconds |-> h[r].seconds,
                time |-> h[r].time, message |-> h[r].message]

Entries(h, refs) == [i \in 1..Len(refs) |-> Entry(h, refs[i])]

ListEntries == Entries(heap, ListRefs)

SortedRefs(h, refs) ==
  \A i \in 1..(Len(refs) - 1) : h[refs[i]].time <= h[refs[i + 1]].time

Filter_inverted(h, refs, id) == SelectSeq(refs, LAMBDA r : h[r].id = id)

\* the list without the entries that carry `id` (lines 813-824)
RECURSIVE Filter(_, _, _)
Filter(h, refs, id) ==
  IF refs = <<>> THEN <<>>
  ELSE IF h[Head(refs)].id = id THEN Filter(h, Tail(refs), id)
       ELSE <<Head(refs)>> \o Filter(h, Tail(refs), id)

HasId(h, refs, id) == \E i \in 1..Len(refs) : h[refs[i]].id = id

\* relink the heap so that `head` leads through exactly `refs`
Relink(h, refs) ==
  [r \in Refs |->
     IF \E i \in 1..Len(refs) : refs[i] = r
     THEN LET i == CHOOSE j \in 1..Len(refs) : refs[j] = r
          IN [h[r] EXCEPT !.link = IF i < Len(refs) THEN refs[i + 1] ELSE NULL]
     ELSE h[r]]

\* Ids are only ever compared for equality, so a request names an id some
\* record already carries or the smallest id not yet seen.
RequestIds(h) ==
  {i \in Ids : i = 1 \/ \E r \in Refs : h[r].st # "unalloc" /\ h[r].id >= i - 1}

-----------------------------------------------------------------------------
(* alarm_insert: the ordered walk and the wake-up test *)

InsertPos_head(h, refs, t) == 1

InsertPos_after(h, refs, t) ==
  IF \E i \in 1..Len(refs) : h[refs[i]].time > t
  THEN CHOOSE i \in 1..Len(refs) :
         /\ h[refs[i]].time > t
         /\ \A j \in 1..(i - 1) : ~(h[refs[j]].time > t)
  ELSE Len(refs) + 1

\* the walk stops at the first entry with next->time >= alarm->time
InsertPos(h, refs, t) ==
  IF \E i \in 1..Len(refs) : h[refs[i]].time >= t
  THEN CHOOSE i \in 1..Len(refs) :
         /\ h[refs[i]].time >= t
         /\ \A j \in 1..(i - 1) : ~(h[refs[j]].time >= t)
  ELSE Len(refs) + 1

\* alarm->link = next; *last = alarm   (or the append at the end)
Linked(h, head, a) ==
  LET refs == ListOf(h, head)
      p    == InsertPos(h, refs, h[a].time)
      nxt  == IF p <= Len(refs) THEN refs[p] ELSE NULL
      h1   == [h EXCEPT ![a].link = nxt]
  IN IF p = 1 THEN [heap |-> h1, head |-> a]
     ELSE [heap |-> [h1 EXCEPT ![refs[p - 1]].link = a], head |-> head]

Wakes_always(cur, t) == TRUE

\* if (current_alarm == 0 || alarm->time < current_alarm)
Wakes(cur, t) == cur = 0 \/ t < cur

\* pthread_cond_signal(&alarm_cond): a thread blocked on it is released
Signalled(w) == IF w = "waiting" THEN "signalled" ELSE w

\* alarm_insert of lines 61-115 (982-1033), run on heap h
\* and waiter state w of the alarm thread
alarm_insert(h, head, a, w) ==
  LET r == Linked(h, head, a) IN
  /\ heap' = r.heap
  /\ alarm_list' = r.head
  /\ IF Wakes(current_alarm, h[a].time)
     THEN /\ current_alarm' = h[a].time
          /\ waitst' = Signalled(w)
     ELSE /\ current_alarm' = current_alarm
          /\ waitst' = w

-----------------------------------------------------------------------------
(* Groups of variables an action may leave alone *)

bufvars == <<circ_buff, ct_pc, pushLog, popLog>>
clvars  == <<cl_pc, cl_req, ncalls, nalloc>>
atvars  == <<at_pc, at_alarm>>
dispvars == <<Alarm_Display_List, alarm_display_list_mutex, pd_pc, pd_temp,
              pd_now, pd_next, pd_wake, announced>>

Running == proc = "running"

Expired(h, a) == [ref |-> a, id |-> h[a].id, time |-> h[a].time, at |-> now]

-----------------------------------------------------------------------------
(* variant "cond": the client thread (main, change_alarm, cancel_alarm) *)

\* main, lines 273-292: malloc, sscanf, pthread_mutex_lock.  alarm_id is
\* never assigned (lines 884-932: it is parsed and not validated), so any
\* value may be in it.
CondMainLock(id, secs) ==
  /\ Running /\ variant = "cond"
  /\ cl_pc = "idle" /\ nalloc < MaxAlloc /\ alarm_mutex = "none"
  /\ LET a == nalloc + 1 IN
     /\ heap' = [heap EXCEPT ![a] = [id |-> id, seconds |-> secs, time |-> 0,
                                     type |-> "START", message |-> a,
                                     link |-> NULL, st |-> "live",
                                     asked |-> id]]
     /\ cl_req' = [kind |-> "insert", id |-> id, seconds |-> secs,
                   message |-> a, ref |-> a]
  /\ nalloc' = nalloc + 1
  /\ cl_pc' = "ins"
  /\ alarm_mutex' = "main"
  /\ UNCHANGED <<dispvars, variant, mutex_kind, now, proc, alarm_list, current_alarm, waitst, atvars,
                 ncalls, bufvars, expiredLog, report, preempted>>

\* main, lines 293-301: set the deadline, alarm_insert, unlock
CondMainInsert ==
  /\ Running /\ variant = "cond" /\ cl_pc = "ins"
  /\ LET a == cl_req.ref
         h == [heap EXCEPT ![a].time = now + heap[a].seconds]
     IN alarm_insert(h, alarm_list, a, waitst)
  /\ cl_pc' = "idle" /\ cl_req' = NoReq
  /\ alarm_mutex' = "none"
  /\ UNCHANGED <<dispvars, variant, mutex_kind, now, proc, atvars, nalloc, ncalls, bufvars,
                 expiredLog, report, preempted>>

\* the first entry with the given id, or NULL (the for loops of lines
\* 127-132 and 162-167)
FirstWithId(h, refs, id) ==
  IF HasId(h, refs, id)
  THEN refs[CHOOSE i \in 1..Len(refs) :
              /\ h[refs[i]].id = id
              /\ \A j \in 1..(i - 1) : h[refs[j]].id # id]
  ELSE NULL

Unlinked_cut(refs, a) ==
  IF \E i \in 1..Len(refs) : refs[i] = a
  THEN SubSeq(refs, 1, (CHOOSE i \in 1..Len(refs) : refs[i] = a) - 1)
  ELSE refs

\* the list without record a (prev->link = alarm->link, or the head moved)
Unlinked(refs, a) == SelectSeq(refs, LAMBDA r : r # a)

\* change_alarm, line 123: pthread_mutex_lock
ChangeLock(id, secs) ==
  /\ Running /\ variant = "cond"
  /\ cl_pc = "idle" /\ ncalls < MaxCalls /\ alarm_mutex = "none"
  /\ cl_req' = [kind |-> "change", id |-> id, seconds |-> secs,
                message |-> MaxAlloc + ncalls + 1, ref |-> NULL]
  /\ ncalls' = ncalls + 1
  /\ cl_pc' = "chg"
  /\ alarm_mutex' = "main"
  /\ UNCHANGED <<dispvars, variant, mutex_kind, now, proc, heap, nalloc, alarm_list, current_alarm,
                 waitst, atvars, bufvars, expiredLog, report, preempted>>

\* change_alarm, lines 127-138: find the entry and overwrite its fields in
\* place; without a match straight to the unlock of line 147
ChangeModify ==
  /\ Running /\ variant = "cond" /\ cl_pc = "chg"
  /\ LET a == FirstWithId(heap, ListRefs, cl_req.id) IN
     IF a = NULL
     THEN /\ cl_pc' = "idle" /\ cl_req' = NoReq /\ alarm_mutex' = "none"
          /\ UNCHANGED heap
     ELSE /\ heap' = [heap EXCEPT ![a].seconds = cl_req.seconds,
                                  ![a].time = now + cl_req.seconds,
                                  ![a].message = cl_req.message]
          /\ cl_req' = [cl_req EXCEPT !.ref = a]
          /\ cl_pc' = "chg2"
          /\ UNCHANGED alarm_mutex
  /\ UNCHANGED <<dispvars, variant, mutex_kind, now, proc, nalloc, alarm_list, current_alarm, waitst,
                 atvars, ncalls, bufvars, expiredLog, report, preempted>>

\* change_alarm, lines 140-149: unlink, alarm_insert, unlock
ChangeRelink ==
  /\ Running /\ variant = "cond" /\ cl_pc = "chg2"
  /\ LET a    == cl_req.ref
         rest == Unlinked(ListRefs, a)
         h    == Relink(heap, rest)
         head == IF rest = <<>> THEN NULL ELSE rest[1]
     IN alarm_insert(h, head, a, waitst)
  /\ cl_pc' = "idle" /\ cl_req' = NoReq
  /\ alarm_mutex' = "none"
  /\ UNCHANGED <<dispvars, variant, mutex_kind, now, proc, atvars, nalloc, ncalls, bufvars,
                 expiredLog, report, preempted>>

\* cancel_alarm, line 158: pthread_mutex_lock
CancelLock(id) ==
  /\ Running /\ variant = "cond"
  /\ cl_pc = "idle" /\ ncalls < MaxCalls /\ alarm_mutex = "none"
  /\ cl_req' = [kind |-> "cancel", id |-> id, seconds |-> 0, message |-> 0,
                ref |-> NULL]
  /\ ncalls' = ncalls + 1
  /\ cl_pc' = "can"
  /\ alarm_mutex' = "main"
  /\ UNCHANGED <<dispvars, variant, mutex_kind, now, proc, heap, nalloc, alarm_list, current_alarm,
                 waitst, atvars, bufvars, expiredLog, report, preempted>>

\* cancel_alarm, lines 162-180: unlink and free the first match, unlock.
\* Nothing is printed.
CancelUnlink ==
  /\ Running /\ variant = "cond" /\ cl_pc = "can"
  /\ LET a == FirstWithId(heap, ListRefs, cl_req.id) IN
     IF a = NULL
     THEN /\ UNCHANGED <<heap, alarm_list>>
          /\ report' = [text |-> "none", removed |-> 0]
     ELSE LET rest == Unlinked(ListRefs, a) IN
          /\ heap' = [Relink(heap, rest) EXCEPT ![a].st = "cancelled"]
          /\ alarm_list' = IF rest = <<>> THEN NULL ELSE rest[1]
          /\ report' = [text |-> "none", removed |-> 1]
  /\ cl_pc' = "idle" /\ cl_req' = NoReq
  /\ alarm_mutex' = "none"
  /\ UNCHANGED <<dispvars, variant, mutex_kind, now, proc, nalloc, current_alarm, waitst, atvars,
                 ncalls, bufvars, expiredLog, preempted>>

-----------------------------------------------------------------------------
(* variant "cond": alarm_thread, lines 187-253 (1038-1111).  The thread owns *)
(* alarm_mutex from the return of one wait to the start of the next.       *)

\* line 200: pthread_mutex_lock at the start of the thread
CondThreadLock ==
  /\ Running /\ variant = "cond"
  /\ at_pc = "start" /\ alarm_mutex = "none"
  /\ alarm_mutex' = "alarm"
  /\ at_pc' = "top"
  /\ UNCHANGED <<dispvars, variant, mutex_kind, now, proc, heap, alarm_list,
                 current_alarm, waitst, at_alarm, clvars, bufvars, expiredLog,
                 report, preempted>>

\* the thread is at line 210 (cur = 0) or back from the wait of line 213
\* (cur = current_alarm), and owns the mutex
AtLoop(cur) ==
  \/ /\ at_pc = "top" /\ cur = 0
  \/ /\ at_pc = "idle_wait" /\ waitst = "signalled" /\ alarm_mutex = "none"
     /\ cur = current_alarm

\* lines 210-216: the list is empty, pthread_cond_wait releases the mutex
CondThreadIdle ==
  /\ Running /\ variant = "cond"
  /\ \E cur \in {0, current_alarm} :
       /\ AtLoop(cur)
       /\ current_alarm' = cur
  /\ alarm_list = NULL
  /\ at_pc' = "idle_wait"
  /\ waitst' = "waiting"
  /\ alarm_mutex' = "none"
  /\ UNCHANGED <<dispvars, variant, mutex_kind, now, proc, heap, alarm_list, at_alarm,
                 clvars, bufvars, expiredLog, report, preempted>>

\* lines 210-233: pop the head; a deadline still ahead arms current_alarm
\* and enters pthread_cond_timedwait, which releases the mutex
CondThreadArm ==
  /\ Running /\ variant = "cond"
  /\ \E cur \in {0, current_alarm} : AtLoop(cur)
  /\ alarm_list # NULL
  /\ heap[alarm_list].time > now
  /\ at_alarm' = alarm_list
  /\ alarm_list' = heap[alarm_list].link
  /\ current_alarm' = heap[alarm_list].time
  /\ at_pc' = "timed_wait"
  /\ waitst' = "waiting"
  /\ alarm_mutex' = "none"
  /\ UNCHANGED <<dispvars, variant, mutex_kind, now, proc, heap, clvars, bufvars,
                 expiredLog, report, preempted>>

\* lines 210-221, 245-251: pop the head; its deadline is not ahead, so it is
\* printed as expired and freed
CondThreadDue ==
  /\ Running /\ variant = "cond"
  /\ \E cur \in {0, current_alarm} :
       /\ AtLoop(cur)
       /\ current_alarm' = cur
  /\ alarm_list # NULL
  /\ ~(heap[alarm_list].time > now)
  /\ alarm_list' = heap[alarm_list].link
  /\ expiredLog' = Append(expiredLog, Expired(heap, alarm_list))
  /\ heap' = [heap EXCEPT ![alarm_list].st = "expired"]
  /\ at_alarm' = NULL
  /\ at_pc' = "top"
  /\ waitst' = "none"
  /\ alarm_mutex' = "alarm"
  /\ UNCHANGED <<dispvars, variant, mutex_kind, now, proc, clvars, bufvars, report,
                 preempted>>

\* lines 232-238, 247-251: the timed wait returns ETIMEDOUT
CondThreadTimedOut ==
  /\ Running /\ variant = "cond" /\ at_pc = "timed_wait"
  /\ waitst = "timedout" /\ alarm_mutex = "none"
  /\ alarm_mutex' = "alarm"
  /\ waitst' = "none"
  /\ expiredLog' = Append(expiredLog, Expired(heap, at_alarm))
  /\ heap' = [heap EXCEPT ![at_alarm].st = "expired"]
  /\ at_alarm' = NULL
  /\ at_pc' = "top"
  /\ UNCHANGED <<dispvars, variant, mutex_kind, now, proc, alarm_list, current_alarm,
                 clvars, bufvars, report, preempted>>

\* lines 230-241: the timed wait returns 0 and current_alarm still equals
\* the deadline: wait again, with the same cond_time
CondThreadRewait ==
  /\ Running /\ variant = "cond" /\ at_pc = "timed_wait"
  /\ waitst = "signalled" /\ alarm_mutex = "none"
  /\ current_alarm = heap[at_alarm].time
  /\ waitst' = "waiting"
  /\ UNCHANGED <<dispvars, variant, mutex_kind, now, proc, heap, alarm_list,
                 current_alarm, alarm_mutex, atvars, clvars, bufvars,
                 expiredLog, report, preempted>>

\* lines 230-243: the timed wait returns 0 and current_alarm was changed:
\* the record goes back into the list
CondThreadRequeue ==
  /\ Running /\ variant = "cond" /\ at_pc = "timed_wait"
  /\ waitst = "signalled" /\ alarm_mutex = "none"
  /\ current_alarm # heap[at_alarm].time
  /\ alarm_insert(heap, alarm_list, at_alarm, "none")
  /\ preempted' = preempted \cup {Entry(heap, at_alarm)}
  /\ alarm_mutex' = "alarm"
  /\ at_alarm' = NULL
  /\ at_pc' = "top"
  /\ UNCHANGED <<dispvars, variant, mutex_kind, now, proc, clvars, bufvars, expiredLog,
                 report>>

-----------------------------------------------------------------------------
(* variant "pipe": main, lines 467-587 *)

Unlocked_kept(m, t) == m

\* pthread_mutex_unlock by thread t, its status ignored.  The owner unlocks.
\* For another thread the behaviour is undefined: a fast mutex is unlocked
\* whoever owns it, a checking one returns EPERM and stays as it is.
Unlocked(m, t) ==
  IF m = t \/ mutex_kind = "fast" THEN "none" ELSE m

\* lines 472-493 (516-528, 551-563): malloc, sscanf, the validation and
\* pthread_mutex_lock.  A Cancel_Alarm line is parsed into the local
\* variable alarm_id (`asked`), which is not used again: the id and seconds
\* of its record are what malloc left there, and the record is kept when
\* they pass the validation.
PipeMainLock(kind, id, secs, asked) ==
  /\ Running /\ variant = "pipe" /\ ct_pc = "done"
  /\ cl_pc = "idle" /\ nalloc < MaxAlloc /\ alarm_mutex = "none"
  /\ ncalls' = IF kind = "START" THEN ncalls ELSE ncalls + 1
  /\ ncalls' <= MaxCalls
  /\ kind # "CANCEL" => asked = id
  /\ LET a == nalloc + 1
         m == IF kind = "CANCEL" THEN 0 ELSE a
     IN /\ heap' = [heap EXCEPT ![a] = [id |-> id, seconds |-> secs, time |-> 0,
                                        type |-> kind, message |-> m,
                                        link |-> NULL, st |-> "live",
                                        asked |-> asked]]
        /\ cl_req' = [kind |-> kind, id |-> id, seconds |-> secs,
                      message |-> m, ref |-> a]
  /\ nalloc' = nalloc + 1
  /\ cl_pc' = "ins"
  /\ alarm_mutex' = "main"
  /\ UNCHANGED <<dispvars, variant, mutex_kind, now, proc, alarm_list, current_alarm,
                 waitst, atvars, bufvars, expiredLog, report, preempted>>

\* alarm_insert of lines 595-658 when the id is already in the list:
\* free(alarm), alarm = NULL, and the walk of lines 618-621 then reads
\* alarm->time of the NULL pointer while next is the list's first entry
DuplicateInsert(h, a) ==
  /\ heap' = [h EXCEPT ![a].st = "rejected"]
  /\ proc' = "segv"
  /\ UNCHANGED <<alarm_list, current_alarm, waitst>>

\* lines 495-504: the deadline, the kind, alarm_insert, unlock.  The unlock
\* of a thread that lost the mutex happens only with a fast mutex and
\* returns 0 there.
PipeMainInsert ==
  /\ Running /\ variant = "pipe" /\ cl_pc = "ins"
  /\ LET a == cl_req.ref
         h == [heap EXCEPT ![a].time = now + heap[a].seconds]
     IN IF HasId(h, ListRefs, h[a].id)
        THEN DuplicateInsert(h, a)
        ELSE /\ alarm_insert(h, alarm_list, a, waitst)
             /\ UNCHANGED proc
  /\ cl_pc' = "idle" /\ cl_req' = NoReq
  /\ alarm_mutex' = "none"
  /\ UNCHANGED <<dispvars, variant, mutex_kind, now, atvars, nalloc, ncalls, bufvars,
                 expiredLog, report, preempted>>

-----------------------------------------------------------------------------
(* variant "pipe": alarm_thread, lines 663-740, and its handlers *)

\* line 676
PipeThreadLock ==
  /\ Running /\ variant = "pipe" /\ ct_pc = "done"
  /\ at_pc = "start" /\ alarm_mutex = "none"
  /\ alarm_mutex' = "alarm"
  /\ at_pc' = "top"
  /\ UNCHANGED <<dispvars, variant, mutex_kind, now, proc, heap, alarm_list,
                 current_alarm, waitst, at_alarm, clvars, bufvars, expiredLog,
                 report, preempted>>

\* line 686
PipeThreadTop ==
  /\ Running /\ variant = "pipe" /\ at_pc = "top"
  /\ current_alarm' = 0
  /\ at_pc' = "check"
  /\ UNCHANGED <<dispvars, variant, mutex_kind, now, proc, heap, alarm_list, alarm_mutex,
                 waitst, at_alarm, clvars, bufvars, expiredLog, report,
                 preempted>>

\* lines 687-690: pthread_cond_wait on the empty list.  Called without
\* owning the mutex, a checking mutex makes it return EPERM, which
\* err_abort turns into the end of the process; a fast mutex is unlocked.
PipeThreadIdle ==
  /\ Running /\ variant = "pipe" /\ at_pc = "check"
  /\ alarm_list = NULL
  /\ IF alarm_mutex = "alarm" \/ mutex_kind = "fast"
     THEN /\ at_pc' = "idle_wait"
          /\ waitst' = "waiting"
          /\ alarm_mutex' = "none"
          /\ UNCHANGED proc
     ELSE /\ proc' = "abort"
          /\ UNCHANGED <<at_pc, waitst, alarm_mutex>>
  /\ UNCHANGED <<dispvars, variant, mutex_kind, now, heap, alarm_list, current_alarm,
                 at_alarm, clvars, bufvars, expiredLog, report, preempted>>

\* lines 688-691: the wait returns with the mutex locked
PipeThreadIdleWake ==
  /\ Running /\ variant = "pipe" /\ at_pc = "idle_wait"
  /\ waitst = "signalled" /\ alarm_mutex = "none"
  /\ alarm_mutex' = "alarm"
  /\ waitst' = "none"
  /\ at_pc' = "check"
  /\ UNCHANGED <<dispvars, variant, mutex_kind, now, proc, heap, alarm_list,
                 current_alarm, at_alarm, clvars, bufvars, expiredLog, report,
                 preempted>>

\* line 694: alarm = alarm_list.  From the second iteration on the thread
\* is here without alarm_mutex, so the two statements of the pop are
\* separate steps that the main thread's alarm_insert can come between.
PipeThreadPop ==
  /\ Running /\ variant = "pipe" /\ at_pc = "check"
  /\ alarm_list # NULL
  /\ at_alarm' = alarm_list
  /\ at_pc' = "pop"
  /\ UNCHANGED <<dispvars, variant, mutex_kind, now, proc, heap, alarm_list,
                 current_alarm, alarm_mutex, waitst, clvars, bufvars,
                 expiredLog, report, preempted>>

\* lines 695-696: alarm_list = alarm->link, unlock
PipeThreadUnlink ==
  /\ Running /\ variant = "pipe" /\ at_pc = "pop"
  /\ alarm_list' = heap[at_alarm].link
  /\ alarm_mutex' = Unlocked(alarm_mutex, "alarm")
  /\ at_pc' = "dispatch"
  /\ UNCHANGED <<dispvars, variant, mutex_kind, now, proc, heap, current_alarm, waitst,
                 at_alarm, clvars, bufvars, expiredLog, report, preempted>>

\* handle_start_alarm, lines 752-768: lock; the deadline is ahead, so
\* current_alarm is armed and pthread_cond_timedwait releases the mutex
PipeStartArm ==
  /\ Running /\ variant = "pipe" /\ at_pc = "dispatch"
  /\ heap[at_alarm].type = "START"
  /\ alarm_mutex = "none"
  /\ heap[at_alarm].time > now
  /\ current_alarm' = heap[at_alarm].time
  /\ at_pc' = "hs_wait"
  /\ waitst' = "waiting"
  /\ UNCHANGED <<dispvars, variant, mutex_kind, now, proc, heap, alarm_list, alarm_mutex,
                 at_alarm, clvars, bufvars, expiredLog, report, preempted>>

\* handle_start_alarm, lines 752-757, 784-795: lock; the deadline is not
\* ahead: unlock, print the record as expired, free it
PipeStartDue ==
  /\ Running /\ variant = "pipe" /\ at_pc = "dispatch"
  /\ heap[at_alarm].type = "START"
  /\ alarm_mutex = "none"
  /\ ~(heap[at_alarm].time > now)
  /\ expiredLog' = Append(expiredLog, Expired(heap, at_alarm))
  /\ heap' = [heap EXCEPT ![at_alarm].st = "expired"]
  /\ at_pc' = "push"
  /\ UNCHANGED <<dispvars, variant, mutex_kind, now, proc, alarm_list, current_alarm,
                 alarm_mutex, waitst, at_alarm, clvars, bufvars, report,
                 preempted>>

\* lines 768-774, 789-795: the timed wait returns ETIMEDOUT
PipeStartTimedOut ==
  /\ Running /\ variant = "pipe" /\ at_pc = "hs_wait"
  /\ waitst = "timedout" /\ alarm_mutex = "none"
  /\ waitst' = "none"
  /\ expiredLog' = Append(expiredLog, Expired(heap, at_alarm))
  /\ heap' = [heap EXCEPT ![at_alarm].st = "expired"]
  /\ at_pc' = "push"
  /\ UNCHANGED <<dispvars, variant, mutex_kind, now, proc, alarm_list, current_alarm,
                 alarm_mutex, at_alarm, clvars, bufvars, report, preempted>>

\* lines 766-779: the timed wait returns 0, current_alarm is unchanged
PipeStartRewait ==
  /\ Running /\ variant = "pipe" /\ at_pc = "hs_wait"
  /\ waitst = "signalled" /\ alarm_mutex = "none"
  /\ current_alarm = heap[at_alarm].time
  /\ waitst' = "waiting"
  /\ UNCHANGED <<dispvars, variant, mutex_kind, now, proc, heap, alarm_list,
                 current_alarm, alarm_mutex, atvars, clvars, bufvars,
                 expiredLog, report, preempted>>

\* lines 766-789: the timed wait returns 0, current_alarm was changed:
\* alarm_insert(alarm), unlock
PipeStartRequeue ==
  /\ Running /\ variant = "pipe" /\ at_pc = "hs_wait"
  /\ waitst = "signalled" /\ alarm_mutex = "none"
  /\ current_alarm # heap[at_alarm].time
  /\ IF HasId(heap, ListRefs, heap[at_alarm].id)
     THEN DuplicateInsert(heap, at_alarm)
     ELSE /\ alarm_insert(heap, alarm_list, at_alarm, "none")
          /\ UNCHANGED proc
  /\ preempted' = preempted \cup {Entry(heap, at_alarm)}
  /\ at_pc' = "push"
  /\ UNCHANGED <<dispvars, variant, mutex_kind, now, alarm_mutex, at_alarm, clvars,
                 bufvars, expiredLog, report>>

\* handle_change_alarm, lines 798-800: an empty body
PipeChange ==
  /\ Running /\ variant = "pipe" /\ at_pc = "dispatch"
  /\ heap[at_alarm].type = "CHANGE"
  /\ at_pc' = "push"
  /\ UNCHANGED <<dispvars, variant, mutex_kind, now, proc, heap, alarm_list,
                 current_alarm, alarm_mutex, waitst, at_alarm, clvars, bufvars,
                 expiredLog, report, preempted>>

\* handle_cancel_alarm, lines 802-833, and free(alarm) of line 708: every
\* entry with the id is unlinked and freed, the confirmation is printed
PipeCancel ==
  /\ Running /\ variant = "pipe" /\ at_pc = "dispatch"
  /\ heap[at_alarm].type = "CANCEL"
  /\ alarm_mutex = "none"
  /\ LET id   == heap[at_alarm].id
         refs == ListRefs
         rest == Filter(heap, refs, id)
         gone == {refs[i] : i \in {j \in 1..Len(refs) : heap[refs[j]].id = id}}
     IN /\ heap' = [r \in Refs |->
                      IF r \in gone THEN [heap[r] EXCEPT !.st = "cancelled"]
                      ELSE IF r = at_alarm THEN [heap[r] EXCEPT !.st = "freed"]
                      ELSE Relink(heap, rest)[r]]
        /\ alarm_list' = IF rest = <<>> THEN NULL ELSE rest[1]
        /\ report' = [text |-> "cancelled", removed |-> Cardinality(gone)]
  /\ at_pc' = "push"
  /\ UNCHANGED <<dispvars, variant, mutex_kind, now, proc, current_alarm, alarm_mutex,
                 waitst, at_alarm, clvars, bufvars, expiredLog, preempted>>

NotFull_always(c) == TRUE

\* line 717: while (circ_buff.count == CIRCULAR_BUFFER_SIZE)
NotFull(c) == c.count # CIRCULAR_BUFFER_SIZE

\* lines 716-720: the buffer is full, pthread_cond_wait on not_full
PipePushFull ==
  /\ Running /\ variant = "pipe" /\ at_pc = "push"
  /\ circ_buff.count = CIRCULAR_BUFFER_SIZE
  /\ at_pc' = "push_wait"
  /\ UNCHANGED <<dispvars, variant, mutex_kind, now, proc, heap, alarm_list,
                 current_alarm, alarm_mutex, waitst, at_alarm, clvars, bufvars,
                 expiredLog, report, preempted>>

PipePush_nowrap ==
  /\ Running /\ variant = "pipe" /\ at_pc = "push"
  /\ NotFull(circ_buff)
  /\ circ_buff' = [circ_buff EXCEPT
                     !.buffer[circ_buff.insert_at] = at_alarm,
                     !.insert_at = circ_buff.insert_at + 1,
                     !.count = circ_buff.count + 1]
  /\ pushLog' = Append(pushLog, at_alarm)
  /\ alarm_mutex' = Unlocked(alarm_mutex, "alarm")
  /\ at_pc' = "top"
  /\ UNCHANGED <<dispvars, variant, mutex_kind, now, proc, heap, alarm_list,
                 current_alarm, waitst, at_alarm, clvars, ct_pc, popLog,
                 expiredLog, report, preempted>>

\* lines 716-738: store the pointer, advance insert_at, count it; print the
\* record's fields; unlock alarm_mutex
PipePush ==
  /\ Running /\ variant = "pipe" /\ at_pc = "push"
  /\ NotFull(circ_buff)
  /\ circ_buff' = [circ_buff EXCEPT
                     !.buffer[circ_buff.insert_at] = at_alarm,
                     !.insert_at = (circ_buff.insert_at + 1) % CIRCULAR_BUFFER_SIZE,
                     !.count = circ_buff.count + 1]
  /\ pushLog' = Append(pushLog, at_alarm)
  /\ alarm_mutex' = Unlocked(alarm_mutex, "alarm")
  /\ at_pc' = "top"
  /\ UNCHANGED <<dispvars, variant, mutex_kind, now, proc, heap, alarm_list,
                 current_alarm, waitst, at_alarm, clvars, ct_pc, popLog,
                 expiredLog, report, preempted>>

\* consumer_thread, lines 742-746: returns at once.  The step touches no
\* shared state and commutes with every other step, so it is taken first.
ConsumerReturn ==
  /\ Running /\ variant = "pipe" /\ ct_pc = "start"
  /\ ct_pc' = "done"
  /\ UNCHANGED <<dispvars, variant, mutex_kind, now, proc, heap, alarm_list,
                 current_alarm, alarm_mutex, waitst, atvars, clvars, circ_buff,
                 pushLog, popLog, expiredLog, report, preempted>>

-----------------------------------------------------------------------------
(* The condition variable and the clock *)

InTimedWait == at_pc \in {"timed_wait", "hs_wait"}
InWait      == at_pc \in {"idle_wait", "timed_wait", "hs_wait"}

Timeout_early ==
  /\ Running /\ InTimedWait /\ waitst = "waiting"
  /\ waitst' = "timedout"
  /\ UNCHANGED <<dispvars, variant, mutex_kind, now, proc, heap, alarm_list, current_alarm,
                 alarm_mutex, atvars, clvars, bufvars, expiredLog, report, preempted>>

\* the absolute time of the timed wait passes before a signal arrives
Timeout ==
  /\ Running /\ InTimedWait /\ waitst = "waiting"
  /\ now >= heap[at_alarm].time
  /\ waitst' = "timedout"
  /\ UNCHANGED <<dispvars, variant, mutex_kind, now, proc, heap, alarm_list, current_alarm,
                 alarm_mutex, atvars, clvars, bufvars, expiredLog, report, preempted>>

\* a wait on a condition variable may return without a signal
SpuriousWakeup ==
  /\ Running /\ InWait /\ waitst = "waiting"
  /\ waitst' = "signalled"
  /\ UNCHANGED <<dispvars, variant, mutex_kind, now, proc, heap, alarm_list, current_alarm,
                 alarm_mutex, atvars, clvars, bufvars, expiredLog, report, preempted>>

\* the alarm thread cannot run before something else happens
ThreadBlocked ==
  \/ at_pc = "idle_wait" /\ waitst = "waiting"
  \/ InTimedWait /\ waitst = "waiting" /\ now < heap[at_alarm].time
  \/ at_pc = "push_wait"

Tick ==
  /\ Running /\ now < MaxTime
  /\ cl_pc = "idle" /\ ThreadBlocked
  /\ now' = now + 1
  /\ UNCHANGED <<dispvars, variant, mutex_kind, proc, heap, alarm_list, current_alarm, alarm_mutex,
                 waitst, atvars, clvars, bufvars, expiredLog, report,
                 preempted>>

-----------------------------------------------------------------------------

(* periodic_display_thread, lines 317-362.  No pthread_create names it *)
(* (lines 262, 458, 462, 891) and nothing stores into Alarm_Display_List,  *)
(* so in Spec and SpecCond the thread does not exist and the list is       *)
(* empty.  SpecDisplay runs the thread function over a display list given  *)
(* at the start; the records are alarm_t records of the heap.              *)

\* the variables periodic_display_thread leaves alone
restvars == <<variant, mutex_kind, proc, alarm_list, current_alarm,
              alarm_mutex, waitst, atvars, clvars, bufvars, expiredLog,
              report, preempted>>

DisplayRefs == ListOf(heap, Alarm_Display_List)

\* lines 323-333: lock, now = time(NULL), next_alarm_time = now + 60,
\* temp = Alarm_Display_List
DisplayLock ==
  /\ Running /\ pd_pc = "loop"
  /\ alarm_display_list_mutex = "none"
  /\ alarm_display_list_mutex' = "display"
  /\ pd_now' = now
  /\ pd_next' = now + 60
  /\ pd_temp' = Alarm_Display_List
  /\ pd_pc' = "scan"
  /\ UNCHANGED <<restvars, now, heap, Alarm_Display_List, pd_wake, announced>>

Rescheduled_always(h, t, n) ==
  [h EXCEPT ![t].time = h[t].time + h[t].seconds]

\* lines 336-342: an entry that is due is printed and its scheduled_time
\* moved on by its seconds
Rescheduled(h, t, n) ==
  IF h[t].time <= n THEN [h EXCEPT ![t].time = h[t].time + h[t].seconds]
  ELSE h

\* lines 334-349: one turn of the while loop, for the entry at temp
DisplayVisit ==
  /\ Running /\ pd_pc = "scan" /\ pd_temp # NULL
  /\ heap' = Rescheduled(heap, pd_temp, pd_now)
  /\ announced' = IF heap[pd_temp].time <= pd_now
                  THEN Append(announced, [ref |-> pd_temp,
                                          time |-> heap[pd_temp].time,
                                          at |-> pd_now])
                  ELSE announced
  /\ pd_next' = IF heap'[pd_temp].time < pd_next THEN heap'[pd_temp].time
                ELSE pd_next
  /\ pd_temp' = heap[pd_temp].link
  /\ UNCHANGED <<restvars, now, Alarm_Display_List, alarm_display_list_mutex,
                 pd_pc, pd_now, pd_wake>>

DisplayUnlock_kept ==
  /\ Running /\ pd_pc = "scan" /\ pd_temp = NULL
  /\ alarm_display_list_mutex' = alarm_display_list_mutex
  /\ pd_pc' = "unlocked"
  /\ UNCHANGED <<restvars, now, heap, Alarm_Display_List, pd_temp, pd_now,
                 pd_next, pd_wake, announced>>

\* lines 334, 351: the end of the list, unlock
DisplayUnlock ==
  /\ Running /\ pd_pc = "scan" /\ pd_temp = NULL
  /\ alarm_display_list_mutex' = "none"
  /\ pd_pc' = "unlocked"
  /\ UNCHANGED <<restvars, now, heap, Alarm_Display_List, pd_temp, pd_now,
                 pd_next, pd_wake, announced>>

\* line 357: sleep_time = (sleep_time > 0) ? sleep_time : 1
SleepTime(d) == IF d > 0 THEN d ELSE 1

\* lines 356-358: sleep(next_alarm_time - time(NULL)), at least 1 second
DisplaySleep ==
  /\ Running /\ pd_pc = "unlocked"
  /\ pd_wake' = now + SleepTime(pd_next - now)
  /\ pd_pc' = "sleep"
  /\ UNCHANGED <<restvars, now, heap, Alarm_Display_List,
                 alarm_display_list_mutex, pd_temp, pd_now, pd_next,
                 announced>>

\* sleep() returns, back to line 320
DisplayWake ==
  /\ Running /\ pd_pc = "sleep" /\ now >= pd_wake
  /\ pd_pc' = "loop"
  /\ UNCHANGED <<restvars, now, heap, Alarm_Display_List,
                 alarm_display_list_mutex, pd_temp, pd_now, pd_next, pd_wake,
                 announced>>

\* the clock, while the thread sleeps
DisplayTick ==
  /\ Running /\ now < MaxTime
  /\ pd_pc = "sleep" /\ now < pd_wake
  /\ now' = now + 1
  /\ UNCHANGED <<restvars, heap, dispvars>>

-----------------------------------------------------------------------------

\* the display list is empty and no display thread runs
DisplayOff ==
  /\ Alarm_Display_List = NULL
  /\ alarm_display_list_mutex = "none"
  /\ pd_pc = "none"
  /\ pd_temp = NULL
  /\ pd_now = 0
  /\ pd_next = 0
  /\ pd_wake = 0
  /\ announced = <<>>

\* the state when main has created the threads
Start(v) ==
  /\ variant = v
  /\ now = 1
  /\ proc = "running"
  /\ heap = [r \in Refs |-> Blank]
  /\ nalloc = 0
  /\ alarm_list = NULL
  /\ current_alarm = 0
  /\ alarm_mutex = "none"
  /\ waitst = "none"
  /\ at_pc = "start"
  /\ at_alarm = NULL
  /\ cl_pc = "idle"
  /\ cl_req = NoReq
  /\ ncalls = 0
  /\ circ_buff = [buffer |-> [i \in 0..(CIRCULAR_BUFFER_SIZE - 1) |-> NULL],
                  insert_at |-> 0, remove_at |-> 0, count |-> 0]
  /\ ct_pc = "start"
  /\ expiredLog = <<>>
  /\ pushLog = <<>>
  /\ popLog = <<>>
  /\ report = [text |-> "none", removed |-> 0]
  /\ preempted = {}
  /\ DisplayOff

\* lines 379-833
Init ==
  /\ Start("pipe")
  /\ mutex_kind \in {"fast", "checking"}

\* lines 1-377 and 836-1111: no thread unlocks a mutex it does not own
InitCond ==
  /\ Start("cond")
  /\ mutex_kind = "fast"

\* a display list of n entries, in the order of their scheduled_time, and
\* periodic_display_thread at its first statement
DisplayEntry(r, n, secs, t) ==
  [id |-> r, seconds |-> secs, time |-> t, type |-> "START", message |-> r,
   link |-> IF r < n THEN r + 1 ELSE NULL, st |-> "live", asked |-> r]

InitDisplay ==
  /\ variant = "display" /\ mutex_kind = "fast"
  /\ now = 1 /\ proc = "running"
  /\ \E n \in 0..MaxAlloc, secs \in [Refs -> Seconds], t \in [Refs -> 0..MaxTime] :
       /\ \A r \in 1..(n - 1) : t[r] <= t[r + 1]
       /\ nalloc = n
       /\ heap = [r \in Refs |-> IF r <= n
                                 THEN DisplayEntry(r, n, secs[r], t[r])
                                 ELSE Blank]
  /\ Alarm_Display_List = (IF nalloc > 0 THEN 1 ELSE NULL)
  /\ alarm_display_list_mutex = "none"
  /\ pd_pc = "loop" /\ pd_temp = NULL
  /\ pd_now = 0 /\ pd_next = 0 /\ pd_wake = 0 /\ announced = <<>>
  /\ alarm_list = NULL /\ current_alarm = 0 /\ alarm_mutex = "none"
  /\ waitst = "none" /\ at_pc = "start" /\ at_alarm = NULL
  /\ cl_pc = "idle" /\ cl_req = NoReq /\ ncalls = 0
  /\ circ_buff = [buffer |-> [i \in 0..(CIRCULAR_BUFFER_SIZE - 1) |-> NULL],
                  insert_at |-> 0, remove_at |-> 0, count |-> 0]
  /\ ct_pc = "start"
  /\ expiredLog = <<>> /\ pushLog = <<>> /\ popLog = <<>>
  /\ report = [text |-> "none", removed |-> 0]
  /\ preempted = {}

CondClient ==
  \/ \E id \in RequestIds(heap), secs \in Seconds : CondMainLock(id, secs)
  \/ CondMainInsert
  \/ \E id \in RequestIds(heap), secs \in Seconds : ChangeLock(id, secs)
  \/ ChangeModify
  \/ ChangeRelink
  \/ \E id \in RequestIds(heap) : CancelLock(id)
  \/ CancelUnlink

CondThread ==
  \/ CondThreadLock
  \/ CondThreadIdle
  \/ CondThreadArm
  \/ CondThreadDue
  \/ CondThreadTimedOut
  \/ CondThreadRewait
  \/ CondThreadRequeue

Kinds == {"START", "CHANGE", "CANCEL"}

PipeClient ==
  \/ \E kind \in Kinds, id \in RequestIds(heap), secs \in Seconds,
        asked \in RequestIds(heap) :
        PipeMainLock(kind, id, secs, asked)
  \/ PipeMainInsert

PipeThread ==
  \/ PipeThreadLock
  \/ PipeThreadTop
  \/ PipeThreadIdle
  \/ PipeThreadIdleWake
  \/ PipeThreadPop
  \/ PipeThreadUnlink
  \/ PipeStartArm
  \/ PipeStartDue
  \/ PipeStartTimedOut
  \/ PipeStartRewait
  \/ PipeStartRequeue
  \/ PipeChange
  \/ PipeCancel
  \/ PipePushFull
  \/ PipePush
  \/ ConsumerReturn

Next ==
  \/ PipeClient
  \/ PipeThread
  \/ Timeout
  \/ SpuriousWakeup
  \/ Tick

NextCond ==
  \/ CondClient
  \/ CondThread
  \/ Timeout
  \/ SpuriousWakeup
  \/ Tick

NextDisplay ==
  \/ DisplayLock
  \/ DisplayVisit
  \/ DisplayUnlock
  \/ DisplaySleep
  \/ DisplayWake
  \/ DisplayTick

Spec == Init /\ [][Next]_vars

SpecCond == InitCond /\ [][NextCond]_vars

SpecDisplay == InitDisplay /\ [][NextDisplay]_vars

-----------------------------------------------------------------------------
(* Properties *)

\* a step of the client thread that runs alarm_insert for its new record
MainInserts == cl_pc = "ins" /\ cl_pc' = "idle"

\* the deadline alarm_insert sees in the client's new record
NewTime == now + cl_req.seconds

\* C1: whenever alarm_mutex is not held, alarm_list is in non-decreasing
\* order of deadline, after any inserts, change_alarm and cancel_alarm
\* calls, pops and requeues.
C1_SortedWhenUnlocked ==
  alarm_mutex = "none" => SortedRefs(heap, ListRefs)

\* an unlocked list of two deadlines, one of which change_alarm set, after
\* a requeue
C1_Witness ==
  /\ alarm_mutex = "none" /\ cl_pc = "idle"
  /\ Len(ListRefs) >= 2
  /\ heap[ListRefs[1]].time < heap[ListRefs[Len(ListRefs)]].time
  /\ \E i \in 1..Len(ListRefs) : heap[ListRefs[i]].message > MaxAlloc
  /\ preempted # {}

\* C2: alarm_insert of a record whose id an entry of alarm_list already has
\* discards the record and returns normally, and alarm_list holds the
\* entries it held before, in the same order.
C2_DuplicateRejected ==
  [][MainInserts /\ HasId(heap, ListRefs, cl_req.id)
       => /\ proc' = "running"
          /\ heap'[cl_req.ref].st = "rejected"
          /\ ListEntries' = ListEntries]_vars

\* the alarm thread is in its timed wait for X and a record with a deadline
\* before X's has been inserted since the wait was armed
Preempting ==
  /\ InTimedWait /\ waitst = "signalled"
  /\ current_alarm # 0 /\ current_alarm < heap[at_alarm].time

\* C3: when an alarm A with deadline(A) < deadline(X) is inserted while the
\* alarm thread is in its timed wait for X, the thread is woken and leaves
\* the wait before deadline(A) has passed, X is not marked expired, and X
\* is back in alarm_list with the id, interval, deadline and message it had.
C3_PreemptRequeues ==
  [][/\ (MainInserts /\ InTimedWait /\ waitst \in {"waiting", "signalled"}
           /\ NewTime < heap[at_alarm].time)
          => (proc' = "running" => waitst' = "signalled")
     /\ (Preempting /\ ~InTimedWait')
          => /\ proc' = "running"
             /\ now <= current_alarm
             /\ heap'[at_alarm].st = "live"
             /\ \E i \in 1..Len(ListRefs') :
                  /\ ListRefs'[i] = at_alarm
                  /\ ListEntries'[i] = Entry(heap, at_alarm)]_vars

\* C4: the occupancy of the circular buffer stays within
\* 0..CIRCULAR_BUFFER_SIZE: nothing is stored while count equals the
\* capacity, and count never goes below 0.
C4_CountInRange ==
  /\ 0 <= circ_buff.count
  /\ circ_buff.count <= CIRCULAR_BUFFER_SIZE

\* the alarm thread blocked on not_full with every slot taken
C4_Witness ==
  /\ at_pc = "push_wait"
  /\ circ_buff.count = CIRCULAR_BUFFER_SIZE
  /\ \A i \in 0..(CIRCULAR_BUFFER_SIZE - 1) : circ_buff.buffer[i] # NULL

\* C5: every record the alarm thread pushes is delivered to the consumer
\* exactly once, in the order of the pushes.  Once consumer_thread has
\* returned nothing more is delivered, so by then the pops are the pushes.
C5_DeliveredInOrder ==
  ct_pc = "done" => popLog = pushLog

\* a run of handle_cancel_alarm for an id that no entry of alarm_list has
CancelsNothing ==
  /\ at_pc = "dispatch" /\ at_pc' = "push"
  /\ heap[at_alarm].type = "CANCEL"
  /\ ~HasId(heap, ListRefs, heap[at_alarm].id)

Others(h, refs, id) == Entries(h, Filter(h, refs, id))

\* C7: a change request for id X leaves every pending alarm with another
\* id untouched: it keeps its interval, deadline and message, is not
\* removed, and the relative order of these alarms is preserved.
C7_ChangeLeavesOthers ==
  [][cl_req.kind = "change"
       => Others(heap', ListRefs', cl_req.id) = Others(heap, ListRefs, cl_req.id)]_vars

\* change_alarm has moved the entry it changed behind an entry of another id
C7_Witness ==
  /\ cl_pc = "idle" /\ ncalls > 0
  /\ \E i, j \in 1..Len(ListRefs) :
       /\ i < j
       /\ heap[ListRefs[j]].message > MaxAlloc
       /\ heap[ListRefs[j]].id # heap[ListRefs[i]].id
       /\ ListRefs[j] < ListRefs[i]

\* where record r stands in the two logs
ExpiredAt(r) == {i \in 1..Len(expiredLog) : expiredLog[i].ref = r}
PushedAt(r) == {i \in 1..Len(pushLog) : pushLog[i] = r}

\* a start alarm that alarm_insert linked into the list
Accepted(r) ==
  /\ heap[r].type = "START"
  /\ heap[r].st \in {"live", "expired"}
  /\ heap[r].time > 0

\* C8: for two accepted start alarms A and B with deadline(A) <
\* deadline(B), A is reported expired before B, and A's record is pushed
\* onto the circular buffer before B's.
C8_AscendingDeadlines ==
  \A a, b \in Refs :
    (Accepted(a) /\ Accepted(b) /\ heap[a].time < heap[b].time)
      => /\ \A j \in ExpiredAt(b) : \E i \in ExpiredAt(a) : i < j
         /\ \A j \in PushedAt(b) : \E i \in PushedAt(a) : i < j

\* e, a record whose wait was abandoned, has been reported expired at place j
FiredAt(e, j) ==
  /\ expiredLog[j].ref = e.ref
  /\ expiredLog[j].at = e.time

\* C9: an alarm whose wait was preempted by an earlier insertion is not
\* lost: it keeps its deadline and stays pending, the earlier alarm fires
\* first, at its own deadline, and the preempted alarm fires at its
\* original deadline (lines 836-1111: no change_alarm, no cancel_alarm).
C9_PreemptedStillFires ==
  ncalls = 0 =>
    \A e \in preempted :
      /\ Entry(heap, e.ref) = e
      /\ \/ /\ heap[e.ref].st = "live"
            /\ at_alarm = e.ref \/ \E i \in 1..Len(ListRefs) : ListRefs[i] = e.ref
            /\ now <= e.time
         \/ /\ heap[e.ref].st = "expired"
            /\ \E j \in 1..Len(expiredLog) :
                 /\ FiredAt(e, j)
                 /\ \E i \in 1..(j - 1) :
                      /\ expiredLog[i].time < e.time
                      /\ expiredLog[i].at = expiredLog[i].time

\* a preempted alarm has fired, after an alarm that waited for its own
\* deadline
C9_Witness ==
  /\ ncalls = 0
  /\ \E e \in preempted : \E j \in 1..Len(expiredLog) :
       /\ FiredAt(e, j)
       /\ \E i \in 1..(j - 1) :
            /\ expiredLog[i].time < e.time
            /\ expiredLog[i].time > 1

\* the records a step links into alarm_list
NewlyLinked ==
  {r \in Refs : /\ \E i \in 1..Len(ListRefs') : ListRefs'[i] = r
                /\ ~\E i \in 1..Len(ListRefs) : ListRefs[i] = r}

PosIn(refs, r) == CHOOSE i \in 1..Len(refs) : refs[i] = r

\* C10: alarm_insert is stable: an alarm whose deadline equals the deadline
\* of entries already in alarm_list is placed after all of them.
C10_StableInsert ==
  [][\A a \in NewlyLinked : \A i \in 1..Len(ListRefs') :
       (ListRefs'[i] # a /\ heap'[ListRefs'[i]].time = heap'[a].time)
         => i < PosIn(ListRefs', a)]_vars

\* C10 as the code has it: alarm_insert places the alarm after every entry
\* with an earlier deadline and before every entry whose deadline is equal
\* or later.
C10_InsertBeforeEqual ==
  [][\A a \in NewlyLinked : \A i \in 1..Len(ListRefs') :
       ListRefs'[i] # a
         => IF heap'[ListRefs'[i]].time < heap'[a].time
            THEN i < PosIn(ListRefs', a)
            ELSE i > PosIn(ListRefs', a)]_vars

\* two entries with one deadline, the one that arrived later standing first
C10_Witness ==
  /\ ncalls = 0 /\ preempted = {} /\ cl_pc = "idle"
  /\ \E i \in 1..(Len(ListRefs) - 1) :
       /\ heap[ListRefs[i]].time = heap[ListRefs[i + 1]].time
       /\ ListRefs[i] > ListRefs[i + 1]

\* record r is an entry of alarm_list
InList(r) == \E i \in 1..Len(ListRefs) : ListRefs[i] = r

\* C11: no accepted alarm is silently dropped: every start alarm linked
\* into alarm_list that is not cancelled is eventually reported expired.
\* The alarm thread reports only records it takes from alarm_list, so until
\* it is reported an accepted alarm is an entry of the list or the record
\* the alarm thread has in hand.
C11_NoAlarmDropped ==
  \A r \in Refs :
    (Accepted(r) /\ heap[r].st = "live") => (InList(r) \/ at_alarm = r)

\* the alarm thread is at a statement of its loop that reads or writes
\* alarm_list or current_alarm (lines 686-695, 210-218)
AtListAccess == at_pc \in {"top", "check", "pop"}

\* the client thread is inside alarm_insert, change_alarm or cancel_alarm
ClientInList == cl_pc \in {"ins", "chg", "chg2", "can"}

\* C12: every read or write of alarm_list or current_alarm happens while
\* the executing thread holds alarm_mutex, in particular at the top of
\* every iteration of the alarm thread's loop, and every unlock of
\* alarm_mutex is done by the thread that holds it.
C12_AccessUnderMutex ==
  [][/\ (AtListAccess /\ at_pc' # at_pc) => alarm_mutex = "alarm"
     /\ (ClientInList /\ cl_pc' # cl_pc) => alarm_mutex = "main"
     /\ (alarm_mutex # "none" /\ alarm_mutex' = "none" /\ at_pc' # at_pc)
          => alarm_mutex = "alarm"]_vars

\* the alarm thread locks circ_buff.mutex (line 715)
LocksBuffer == at_pc = "push" /\ at_pc' # "push"

\* C13: no thread acquires circ_buff.mutex while it holds alarm_mutex, and
\* no thread is blocked on the buffer while it keeps alarm_mutex from the
\* others: the locks are never nested, so no cycle of waiting threads
\* forms.
C13_LocksNotNested ==
  [][/\ LocksBuffer => alarm_mutex # "alarm"
     /\ at_pc' = "push_wait" => alarm_mutex' # "alarm"]_vars

\* the alarm thread has stored a record in the buffer while the main
\* thread was holding alarm_mutex
C13_Witness ==
  /\ at_pc = "top" /\ pushLog # <<>>
  /\ cl_pc = "ins" /\ alarm_mutex = "main"

\* record r is stored in a slot of the circular buffer that has not been
\* taken out
InBuffer(r) ==
  \E k \in 0..(circ_buff.count - 1) :
     circ_buff.buffer[(circ_buff.remove_at + k) % CIRCULAR_BUFFER_SIZE] = r

\* C14: a record is held by at most one structure at a time: a record
\* stored in a slot of the circular buffer is never at the same time linked
\* in alarm_list.
C14_OneHolder ==
  \A r \in Refs : ~(InBuffer(r) /\ InList(r))

\* the start alarms that are live: linked in alarm_list, or popped from it and
\* held by the alarm thread while it waits for the deadline
Live ==
  {r \in Refs : InList(r) /\ heap[r].type = "START"}
    \cup (IF InTimedWait THEN {at_alarm} ELSE {})

\* C15: no two live alarms share an id, where live means linked in
\* alarm_list or held by the alarm thread during its timed wait.
C15_UniqueLiveIds ==
  \A r1, r2 \in Live : heap[r1].id = heap[r2].id => r1 = r2

\* C16: the alarm thread never stays blocked in its untimed wait (the
\* wait of the empty-list loop) while alarm_list is non-empty: whenever an
\* insert, change or cancel call has returned with the list non-empty, the
\* thread has been signalled.
C16_IdleWaitWoken ==
  ~(/\ at_pc = "idle_wait" /\ waitst = "waiting"
    /\ cl_pc = "idle"
    /\ alarm_list # NULL)

\* a run of cancel_alarm for the id of the alarm the thread waits for,
\* before that alarm's deadline
CancelsWaited ==
  /\ cl_pc = "can" /\ cl_pc' = "idle"
  /\ at_pc = "timed_wait"
  /\ cl_req.id = heap[at_alarm].id
  /\ now < heap[at_alarm].time

\* C17: while the alarm thread is in its timed wait for the head alarm X,
\* X is still an entry of alarm_list, so a cancel of X's id before X's
\* deadline removes X, and X is not reported expired.
C17_WaitedHeadCancellable ==
  [][/\ at_pc = "timed_wait" => InList(at_alarm)
     /\ CancelsWaited => heap'[at_alarm].st = "cancelled"]_vars

\* C18: an alarm is reported expired only when its timed wait on
\* alarm_cond returned timed-out, no other path marks it expired, and its
\* record is pushed onto the circular buffer only after that timeout.
C18_DueOnlyOnTimeout ==
  [][/\ expiredLog' # expiredLog => (InTimedWait /\ waitst = "timedout")
     /\ (pushLog' # pushLog /\ heap[at_alarm].type = "START")
          => heap[at_alarm].st = "expired"]_vars

\* the alarm thread runs handle_cancel_alarm
HandlesCancel ==
  /\ at_pc = "dispatch" /\ at_pc' = "push"
  /\ heap[at_alarm].type = "CANCEL"

\* C19: validation errors never enter alarm_list: every record that
\* becomes linked has id > 0 and interval >= 0, and a cancel request acts
\* on exactly the id parsed from the request line.
C19_ValidatedRequests ==
  [][/\ \A r \in NewlyLinked : heap'[r].id > 0 /\ heap'[r].seconds >= 0
     /\ HandlesCancel => heap[at_alarm].id = heap[at_alarm].asked]_vars

\* pthread_mutex_unlock of line 738 returns EPERM: the mutex checks its
\* owner and the alarm thread does not hold it
UnlockFails ==
  /\ mutex_kind = "checking"
  /\ at_pc = "push" /\ at_pc' = "top"
  /\ alarm_mutex # "alarm"

\* C20: every failure of a synchronization primitive aborts the process:
\* no thread goes on after a lock, unlock, wait or signal returned an error.
C20_FailureAborts ==
  [][UnlockFails => proc' = "abort"]_vars

\* C21: the alarm thread never blocks forever in the push: while it waits
\* on not_full because the buffer holds CIRCULAR_BUFFER_SIZE items, the
\* consumer thread is there to pop an item and signal not_full, so every
\* pushed item is drained.
C21_PushDrained ==
  (at_pc = "push_wait" \/ circ_buff.count > 0) => ct_pc # "done"

\* a cancel request is handled in this step: handle_cancel_alarm in the
\* alarm thread, or cancel_alarm in the calling thread
CancelHandled ==
  \/ HandlesCancel
  \/ cl_pc = "can" /\ cl_pc' = "idle"

\* the id the cancel request was made for
CancelledId ==
  IF variant = "pipe" THEN heap[at_alarm].asked ELSE cl_req.id

\* C22: after a cancel for id X has been handled, alarm_list holds no entry
\* with id X, also when more than one entry had it, and every entry with
\* another id is still there, in the same relative order.
C22_CancelRemovesAll ==
  [][CancelHandled
       => /\ ~HasId(heap', ListRefs', CancelledId)
          /\ ListEntries' = Entries(heap, Filter(heap, ListRefs, CancelledId))]_vars

\* the alarm thread runs handle_change_alarm
ChangeHandled ==
  /\ at_pc = "dispatch" /\ at_pc' = "push"
  /\ heap[at_alarm].type = "CHANGE"

\* entry i of the list carries what change record c asked for
ChangedTo(h, refs, i, c) ==
  /\ h[refs[i]].id = h[c].id
  /\ h[refs[i]].seconds = h[c].seconds
  /\ h[refs[i]].message = h[c].message
  /\ h[refs[i]].time = h[c].time

\* C23: after a change request for a live id X has been handled,
\* alarm_list holds exactly one entry with id X, and it carries the
\* interval and message of the change and the deadline submission time
\* plus new interval.
C23_ChangeApplied ==
  [][(ChangeHandled /\ HasId(heap, ListRefs, heap[at_alarm].id))
       => \E i \in 1..Len(ListRefs') :
            /\ ChangedTo(heap', ListRefs', i, at_alarm)
            /\ \A j \in 1..Len(ListRefs') :
                 heap'[ListRefs'[j]].id = heap[at_alarm].id => j = i]_vars

\* threads that run periodic_display_thread
Announcers == IF pd_pc = "none" THEN 0 ELSE 1

\* the alarm thread comes out of handle_start_alarm or handle_change_alarm
StartOrChangeHandled ==
  /\ at_pc \in {"dispatch", "hs_wait"} /\ at_pc' = "push"
  /\ heap[at_alarm].type \in {"START", "CHANGE"}

\* no other alarm of the list has the deadline of the record just handled
DeadlineUnshared ==
  \A i \in 1..Len(ListRefs') :
    ListRefs'[i] # at_alarm => heap'[ListRefs'[i]].time # heap'[at_alarm].time

\* C24: a thread for periodic announcements is started exactly when the
\* handling of a start or change request produces a deadline that no other
\* live alarm has: one is started in that case, none in every other step.
C24_AnnouncerPerDeadline ==
  [][IF StartOrChangeHandled /\ DeadlineUnshared
     THEN Announcers' = Announcers + 1
     ELSE Announcers' = Announcers]_vars

\* the fields of the entries of Alarm_Display_List
DisplayEntries == Entries(heap, DisplayRefs)

\* C25: entries of Alarm_Display_List change only through insert, update
\* and remove keyed on id: periodic_display_thread holds no reference into
\* the list and never modifies a field of an entry.
C25_AnnouncerLeavesRegistry ==
  [][/\ pd_pc # "none" => pd_temp' = NULL
     /\ pd_pc # "none" => DisplayEntries' = DisplayEntries]_vars

\* the alarm thread is in the timed wait for X and current_alarm is still
\* X's deadline
ArmedOn ==
  /\ at_pc = "timed_wait"
  /\ current_alarm = heap[at_alarm].time

\* this step is an alarm_insert of a record with a deadline before X's
EarlierInserted ==
  /\ cl_pc \in {"ins", "chg2"} /\ cl_pc' = "idle"
  /\ heap'[cl_req.ref].time < heap[at_alarm].time

\* X stays in the timed wait, with the deadline it was armed with
StillArmed ==
  /\ at_pc' = "timed_wait" /\ at_alarm' = at_alarm
  /\ current_alarm' = current_alarm
  /\ heap'[at_alarm] = heap[at_alarm]

\* X is reported expired, at or after its deadline
ReportedDue ==
  /\ heap'[at_alarm].st = "expired"
  /\ expiredLog' = Append(expiredLog, Expired(heap, at_alarm))
  /\ now >= heap[at_alarm].time

\* C26: early wakeups cannot starve a timeout: while the alarm thread is
\* armed on X and no alarm with a deadline before X's is inserted, every
\* spurious wakeup and every insertion with a deadline >= X's leaves X in
\* the timed wait with the same absolute deadline, and the only way out of
\* the wait is X reported expired once the clock has reached its deadline.
C26_RewaitSameDeadline ==
  [][(ArmedOn /\ ~EarlierInserted) => (StillArmed \/ ReportedDue)]_vars

\* X is woken without a signal at its deadline, while a record inserted
\* after it waits in the list
C26_Witness ==
  /\ ArmedOn /\ waitst = "signalled"
  /\ alarm_list # NULL
  /\ now >= heap[at_alarm].time

\* C27: no alarm is ever reported expired before its deadline: whenever
\* expired = 1 is set for an alarm, the current time is at or after the
\* alarm's deadline, under every interleaving with insertions, changes
\* and cancels.
C27_NeverEarly ==
  \A i \in 1..Len(expiredLog) : expiredLog[i].at >= expiredLog[i].time

\* two alarms have been reported, one of them out of a timed wait that
\* ran to its deadline, after a requeue
C27_Witness ==
  /\ Len(expiredLog) >= 2
  /\ \E i \in 1..Len(expiredLog) :
       /\ expiredLog[i].at = expiredLog[i].time
       /\ heap[expiredLog[i].ref].seconds > 0
  /\ preempted # {}

\* C28: while the alarm thread is in the timed wait holding X,
\* current_alarm is not 0 and current_alarm <= deadline(X), and it differs
\* from deadline(X) only if an alarm_insert with a deadline before X's ran
\* since the wait was armed.
C28_WaitTarget ==
  [][at_pc' = "timed_wait"
       => /\ current_alarm' # 0
          /\ current_alarm' <= heap'[at_alarm'].time
          /\ current_alarm' # heap'[at_alarm'].time
               => \/ at_pc = "timed_wait" /\ EarlierInserted
                  \/ /\ at_pc = "timed_wait"
                     /\ current_alarm # heap[at_alarm].time]_vars

\* an insertion with an earlier deadline has lowered current_alarm while
\* the thread still holds X in the timed wait
C28_Witness ==
  /\ at_pc = "timed_wait"
  /\ current_alarm # 0 /\ current_alarm < heap[at_alarm].time

\* C29: whenever the alarm thread is blocked in the untimed wait of its
\* empty-list loop and no signal on alarm_cond is pending for it,
\* current_alarm is 0, after any insert, change and cancel calls.
C29_IdleMeansZero ==
  (at_pc = "idle_wait" /\ waitst = "waiting") => current_alarm = 0

\* free() has been called on the record
IsFreed(h, r) == h[r].st \in {"expired", "freed", "cancelled", "rejected"}

\* C30: no alarm record is used after it has been freed: once
\* handle_start_alarm, the cancel branch of alarm_thread or the
\* duplicate-id check of alarm_insert has freed a record, no thread stores
\* its pointer in the circular buffer, links it into alarm_list or frees
\* it again.
C30_NoUseAfterFree ==
  [][/\ pushLog' # pushLog => ~IsFreed(heap, at_alarm)
     /\ \A i \in 1..Len(ListRefs') : ~IsFreed(heap', ListRefs'[i])
     /\ \A r \in Refs : IsFreed(heap, r) => heap'[r].st = heap[r].st]_vars

\* the items stored and not yet taken out, oldest first
InFlight == SubSeq(pushLog, Len(popLog) + 1, Len(pushLog))

\* C31: in every reachable state 0 <= insert_at < 4, 0 <= remove_at < 4
\* and insert_at = (remove_at + count) mod 4, and the slots from remove_at
\* up to insert_at, cyclically, hold exactly the items pushed and not yet
\* popped.
C31_BufferCursors ==
  /\ circ_buff.insert_at \in 0..(CIRCULAR_BUFFER_SIZE - 1)
  /\ circ_buff.remove_at \in 0..(CIRCULAR_BUFFER_SIZE - 1)
  /\ circ_buff.insert_at =
       (circ_buff.remove_at + circ_buff.count) % CIRCULAR_BUFFER_SIZE
  /\ circ_buff.count = Len(InFlight)
  /\ \A k \in 0..(circ_buff.count - 1) :
       circ_buff.buffer[(circ_buff.remove_at + k) % CIRCULAR_BUFFER_SIZE]
         = InFlight[k + 1]

\* the buffer is full and insert_at has wrapped round to remove_at
C31_Witness ==
  /\ circ_buff.count = CIRCULAR_BUFFER_SIZE
  /\ circ_buff.insert_at = circ_buff.remove_at
  /\ at_pc = "push_wait"

\* periodic_display_thread reads or writes the display list in this step
DisplayAccess ==
  \/ DisplayEntries' # DisplayEntries
  \/ announced' # announced
  \/ pd_temp' # pd_temp

\* C32: periodic_display_thread reads and writes entries of
\* Alarm_Display_List only while it holds alarm_display_list_mutex, and it
\* never sleeps while holding it: the mutex is released before every sleep
\* and acquired again at the start of every scan.
C32_DisplayUnderMutex ==
  [][/\ DisplayAccess => alarm_display_list_mutex' = "display"
     /\ pd_pc' = "sleep" => alarm_display_list_mutex' = "none"
     /\ (pd_pc = "loop" /\ pd_pc' = "scan")
          => /\ alarm_display_list_mutex = "none"
             /\ alarm_display_list_mutex' = "display"]_vars

\* a later scan, after a sleep, is at an entry with the mutex held
C32_Witness ==
  /\ pd_pc = "scan" /\ pd_temp # NULL
  /\ pd_now > 1 /\ announced # <<>>
  /\ alarm_display_list_mutex = "display"

\* the lines printed for entry r in the scan made at time t
AnnouncedIn(r, t) ==
  {i \in 1..Len(announced) : announced[i].ref = r /\ announced[i].at = t}

\* the scan of time pd_now is over: an entry was printed at most once, and
\* one that was printed had its deadline at or before pd_now and has it
\* moved on by its seconds, one that was not has its deadline after pd_now
ScanDone ==
  \A k \in 1..Len(DisplayRefs) :
    LET r == DisplayRefs[k]
        a == AnnouncedIn(r, pd_now)
    IN /\ Cardinality(a) <= 1
       /\ \A i \in a : /\ announced[i].time <= pd_now
                       /\ heap[r].time = announced[i].time + heap[r].seconds
       /\ a = {} => heap[r].time > pd_now

\* an entry changes only in the step that prints it, and only in its
\* deadline
OnlyDueTouched ==
  \A r \in Refs :
    heap'[r] # heap[r]
      => /\ heap[r].time <= pd_now
         /\ announced' = Append(announced, [ref |-> r, time |-> heap[r].time,
                                            at |-> pd_now])
         /\ heap'[r] = [heap[r] EXCEPT !.time = heap[r].time + heap[r].seconds]

\* C33: in each scan of periodic_display_thread every entry whose deadline
\* is <= the scan time is announced exactly once and its deadline advanced
\* by exactly its interval, every entry whose deadline is later is neither
\* announced nor modified, and the sleep that follows lasts at least 1 and
\* at most 60 seconds.
C33_ScanAnnouncesDue ==
  [][/\ OnlyDueTouched
     /\ pd_pc' = "unlocked" => ScanDone'
     /\ (pd_pc # "sleep" /\ pd_pc' = "sleep") => (pd_wake' - now') \in 1..60
     /\ (pd_pc = "sleep" /\ pd_pc' # "sleep") => now >= pd_wake]_vars

\* a scan over two entries is over: one was due and has been announced
\* and moved on, the other is not due
C33_Witness ==
  /\ pd_pc = "sleep" /\ Len(DisplayRefs) >= 2
  /\ \E j, k \in 1..Len(DisplayRefs) :
       /\ AnnouncedIn(DisplayRefs[j], pd_now) # {}
       /\ heap[DisplayRefs[j]].seconds > 0
       /\ AnnouncedIn(DisplayRefs[k], pd_now) = {}
  /\ pd_wake - pd_now > 1

=============================================================================
